---------------------------- MODULE Spec2Model ----------------------------
(***************************************************************************)
(* Flow-controlled byte channel (byte-channel-rs, module `sync`).          *)
(*                                                                         *)
(* Three handles (ByteSender, ByteReceiver, WindowAdvertiser) and the      *)
(* Chunks handed to the reader operate on two mutex-guarded shared         *)
(* objects: the ChannelBuffer and the Window.  Every action below is one   *)
(* critical section (or one atomic reference-count release) of the code.   *)
(*                                                                         *)
(* Bytes are modelled as sequences of naturals; the k-th byte ever pushed  *)
(* is the number k, so loss, duplication and reordering are all visible.   *)
(***************************************************************************)
EXTENDS Integers, Sequences, FiniteSets, TLC

(* ------------------------------ bounds -------------------------------- *)
\* largest initial_window_size drawn at construction
MaxWindow == 2
\* total number of bytes accepted by push_bytes in one run
MaxBytes == 2
\* largest total amount passed to shrink_window in one run
MaxShrink == 1
\* lengths of one pushed Bytes value range over 1..MaxPush: a push of
\* MaxWindow bytes overflows unless the whole window is advertised
MaxPush == MaxWindow
\* max_sz ranges over 1..MaxSz, the argument of advance over 0..MaxSz
MaxSz == MaxWindow
\* chunks alive at the same time: the window bounds the non-empty ones
MaxChunks == MaxWindow
\* Bytes values queued in the buffer: the window bounds the non-empty ones
MaxQueue == MaxWindow
\* Buf::advance is not explored past this much pending + advertised credit
MaxCredit == MaxWindow + 1

VARIABLES
    window,     \* Window: pending_increment, advertised, underflow, blocked
    winNone,    \* the advertiser has replaced the shared window by None
    buffer,     \* Option<ChannelBuffer>: state, len, buffers, awaiting_chunk
    poisoned,   \* the buffer mutex was poisoned by a panic under its guard
    tx,         \* ByteSender's position
    rx,         \* ByteReceiver's position
    wx,         \* WindowAdvertiser's position
    chunks,     \* the live Chunks, oldest first
    rxNotified, \* the task parked in awaiting_chunk has a wake-up pending
    wxNotified, \* the task parked in the window has a wake-up pending
    initial,    \* history: initial_window_size
    shrunk,     \* history: sum of the amounts passed to shrink_window
    nPushed,    \* history: number of bytes accepted by push_bytes
    rcvd,       \* history: concatenation of the bytes of all returned chunks
    everReset   \* history: reset(e) has been called

vars == <<window, winNone, buffer, poisoned, tx, rx, wx, chunks,
          rxNotified, wxNotified, initial, shrunk, nPushed, rcvd, everReset>>

(* ------------------------------ helpers ------------------------------- *)
Min(a, b) == IF a <= b THEN a ELSE b

RECURSIVE SumLen(_)
SumLen(bs) == IF bs = <<>> THEN 0 ELSE Len(Head(bs)) + SumLen(Tail(bs))

RECURSIVE Concat(_)
Concat(bs) == IF bs = <<>> THEN <<>> ELSE Head(bs) \o Concat(Tail(bs))

(* ------------------------------ Window -------------------------------- *)
\* faulty variant of Window::new: the initial window is advertised at once
WindowNewAdvertised(pending_increment) ==
    [pending_increment |-> 0, advertised |-> pending_increment,
     underflow |-> 0, blocked |-> FALSE]

\* Window::new
WindowNew(pending_increment) ==
    [pending_increment |-> pending_increment, advertised |-> 0,
     underflow |-> 0, blocked |-> FALSE]

\* faulty variant of advertise_increment: the debt left by shrink is not
\* repaid first
AdvertiseIncrementNoDebt(w, incr) ==
    IF incr = 0 THEN w
    ELSE [w EXCEPT !.pending_increment = w.pending_increment + incr,
                   !.blocked = FALSE]

\* faulty variant of advertise_increment: the blocked task is notified
\* through as_ref() and stays parked
AdvertiseIncrementKeepsTask(w, incr) ==
    IF incr = 0 THEN w
    ELSE IF incr <= w.underflow
         THEN [w EXCEPT !.underflow = w.underflow - incr]
         ELSE [w EXCEPT !.underflow = 0,
                        !.pending_increment = w.pending_increment + (incr - w.underflow)]

\* Window::advertise_increment: the window afterwards
AdvertiseIncrement(w, incr) ==
    IF incr = 0 THEN w
    ELSE IF incr <= w.underflow
         THEN [w EXCEPT !.underflow = w.underflow - incr]
         ELSE [w EXCEPT !.underflow = 0,
                        !.pending_increment = w.pending_increment + (incr - w.underflow),
                        !.blocked = FALSE]

\* Window::advertise_increment: whether the blocked task is taken and notified
AdvertiseNotifies(w, incr) ==
    incr # 0 /\ incr > w.underflow /\ w.blocked

\* faulty variant of apply_increment: `underflow <= incr` for
\* `underflow < incr`
ApplyIncrementResultLoose(w) ==
    IF w.pending_increment = 0 THEN -1
    ELSE IF w.underflow <= w.pending_increment
         THEN w.pending_increment - w.underflow
         ELSE -1

\* Window::apply_increment: the increment returned (-1 stands for None)
ApplyIncrementResult(w) ==
    IF w.pending_increment = 0 THEN -1
    ELSE IF w.underflow < w.pending_increment
         THEN w.pending_increment - w.underflow
         ELSE -1

\* Window::apply_increment: the window afterwards
ApplyIncrement(w) ==
    IF w.pending_increment = 0 THEN w
    ELSE IF w.underflow < w.pending_increment
         THEN [w EXCEPT !.pending_increment = 0,
                        !.advertised = w.advertised + (w.pending_increment - w.underflow),
                        !.underflow = 0]
         ELSE [w EXCEPT !.pending_increment = 0,
                        !.underflow = w.underflow - w.pending_increment]

\* Window::poll_increment: the window afterwards (parks the task on NotReady)
PollIncrement(w) ==
    IF ApplyIncrementResult(w) # -1
    THEN ApplyIncrement(w)
    ELSE [ApplyIncrement(w) EXCEPT !.blocked = TRUE]

\* Window::claim_advertised (ByteSender calls it `decrement`); the caller
\* has checked decr <= advertised, the panic branch is the caller's
ClaimAdvertised(w, decr) ==
    IF decr = 0 THEN w ELSE [w EXCEPT !.advertised = w.advertised - decr]

\* faulty variant of shrink: the debt is taken out of the advertised credit
\* first
ShrinkRescinds(w, decr) ==
    [w EXCEPT !.advertised = w.advertised - Min(w.advertised, decr),
              !.underflow = w.underflow + (decr - Min(w.advertised, decr))]

\* Window::shrink
Shrink(w, decr) == [w EXCEPT !.underflow = w.underflow + decr]

(* ------------------------- reference counts --------------------------- *)
\* the process has not aborted (a panic while unwinding from a panic)
Running == tx # "aborted"

\* the handles that still hold their Arc of the buffer
TxHoldsBuffer == tx \in {"live", "closed", "reset", "dropped"}
RxHoldsBuffer == rx \in {"live", "dropped"}
\* Arc::strong_count of the shared window
WindowStrong ==
    (IF tx # "gone" THEN 1 ELSE 0) + (IF rx # "gone" THEN 1 ELSE 0)
        + (IF wx = "live" THEN 1 ELSE 0)
\* Arc::weak_count of the shared window: the chunks holding a Weak
WindowWeak == Cardinality({i \in 1..Len(chunks) : chunks[i].window})
\* Weak::upgrade succeeds
WindowAlive == WindowStrong > 0

(* --------------------------- ChannelBuffer ---------------------------- *)
\* ChannelBuffer::default wrapped in Some
BufferDefault ==
    [state |-> "Sending", len |-> 0, buffers |-> <<>>, awaiting_chunk |-> FALSE]

\* the shared Option<ChannelBuffer> holding a variant without a queue
BufferOf(state) ==
    [state |-> state, len |-> 0, buffers |-> <<>>, awaiting_chunk |-> FALSE]

\* ChannelBuffer::len, 0 for None
BufferLen(b) == IF b.state \in {"Sending", "SenderClosed"} THEN b.len ELSE 0

\* faulty variant of take(): the state is matched by reference and stays in
\* the shared slot
TakeKeeps(b) == b

\* Option::take: what is left in the shared slot
Take(b) == BufferOf("None")

(* -------------------------------- Init -------------------------------- *)
\* sync::new(initial_window_size)
Init ==
    /\ initial \in 0..MaxWindow
    /\ window = WindowNew(initial)
    /\ winNone = FALSE
    /\ buffer = BufferDefault
    /\ poisoned = FALSE
    /\ tx = "live"
    /\ rx = "live"
    /\ wx = "live"
    /\ chunks = <<>>
    /\ rxNotified = FALSE
    /\ wxNotified = FALSE
    /\ shrunk = 0
    /\ nPushed = 0
    /\ rcvd = <<>>
    /\ everReset = FALSE

(* -------------------------- WindowAdvertiser -------------------------- *)
\* faulty variant of is_orphaned: the advertiser's own reference is not
\* counted
IsOrphanedNotCountingSelf == WindowStrong = 0 /\ WindowWeak = 0

\* faulty variant of is_orphaned: the weak references of the chunks are
\* not looked at
IsOrphanedIgnoringChunks == WindowStrong = 1

\* WindowAdvertiser::is_orphaned
IsOrphaned == WindowStrong = 1 /\ WindowWeak = 0

\* WindowAdvertiser::poll: what it returns
WxPollResult ==
    IF ~winNone /\ ApplyIncrementResult(window) # -1 THEN "Ready"
    ELSE IF ~winNone /\ ~IsOrphaned THEN "NotReady"
    ELSE "ReadyNone"

\* WindowAdvertiser::poll
WxPoll ==
    /\ Running
    /\ wx = "live"
    /\ window' = IF winNone THEN window ELSE PollIncrement(window)
    /\ winNone' = (WxPollResult = "ReadyNone")
    /\ wxNotified' = FALSE
    /\ UNCHANGED <<buffer, poisoned, tx, rx, wx, chunks, rxNotified,
                   initial, shrunk, nPushed, rcvd, everReset>>

\* the advertiser is dropped: its Arc of the window is released
WxDrop ==
    /\ Running
    /\ wx = "live"
    /\ wx' = "gone"
    /\ UNCHANGED <<window, winNone, buffer, poisoned, tx, rx, chunks,
                   rxNotified, wxNotified,
                   initial, shrunk, nPushed, rcvd, everReset>>

(* ----------------------------- ByteSender ----------------------------- *)
\* ensure_peer(&self.buffer) in the sender: Arc::strong_count(buffer) > 1
EnsurePeer == RxHoldsBuffer

\* faulty variant of return_buffer_to_window: the length is read from a
\* slot that has already been emptied, as in Drop for ByteReceiver
TxReturnNothing(b, w) == w

\* ByteSender::available_window
AvailableWindow == IF winNone THEN 0 ELSE window.advertised

\* ByteSender::return_buffer_to_window: the window afterwards
TxReturnBufferToWindow(b, w) ==
    IF BufferLen(b) = 0 \/ winNone THEN w ELSE AdvertiseIncrement(w, BufferLen(b))

\* ByteSender::return_buffer_to_window: the advertiser's task is notified
TxReturnNotifies(b, w) ==
    BufferLen(b) # 0 /\ ~winNone /\ AdvertiseNotifies(w, BufferLen(b))

\* the Bytes value of the next n bytes pushed
NewBytes(n) == [i \in 1..n |-> nPushed + i]

\* faulty variant of push_bytes: the overflow check is missing
PushResultUnchecked(n) ==
    IF poisoned THEN "panic_poisoned"
    ELSE IF ~EnsurePeer THEN "LostPeer"
    ELSE IF buffer.state # "Sending" THEN "panic_state"
    ELSE IF winNone THEN "panic_window"
    ELSE "Ok"

\* ByteSender::push_bytes: what it returns
PushResult(n) ==
    IF poisoned THEN "panic_poisoned"
    ELSE IF ~EnsurePeer THEN "LostPeer"
    ELSE IF buffer.state # "Sending" THEN "panic_state"
    ELSE IF winNone THEN "panic_window"
    ELSE IF n <= window.advertised THEN "Ok"
    ELSE "panic_overflow"

\* faulty variant of push_bytes: the parked task is notified through
\* as_ref() and stays in awaiting_chunk
PushBufferKeepsTask(b, bytes) ==
    [b EXCEPT !.len = b.len + Len(bytes),
              !.buffers = Append(b.buffers, bytes)]

\* faulty variant of push_bytes: push_front instead of push_back
PushBufferFront(b, bytes) ==
    [b EXCEPT !.len = b.len + Len(bytes),
              !.buffers = <<bytes>> \o b.buffers,
              !.awaiting_chunk = FALSE]

\* faulty variant of push_bytes: len counts the slices, not their bytes
PushBufferCountsSlices(b, bytes) ==
    [b EXCEPT !.len = b.len + 1,
              !.buffers = Append(b.buffers, bytes),
              !.awaiting_chunk = FALSE]

\* ByteSender::push_bytes, the accepted branch: the buffer afterwards
PushBuffer(b, bytes) ==
    [b EXCEPT !.len = b.len + Len(bytes),
              !.buffers = Append(b.buffers, bytes),
              !.awaiting_chunk = FALSE]

\* ByteSender::push_bytes
TxPush(n) ==
    /\ Running
    /\ tx = "live"
    /\ nPushed + n <= MaxBytes
    /\ Len(buffer.buffers) < MaxQueue
    /\ CASE PushResult(n) = "Ok" ->
              /\ buffer' = PushBuffer(buffer, NewBytes(n))
              /\ window' = ClaimAdvertised(window, n)
              /\ nPushed' = nPushed + n
              /\ rxNotified' = (rxNotified \/ buffer.awaiting_chunk)
              /\ UNCHANGED <<poisoned, wxNotified>>
         [] PushResult(n) = "LostPeer" ->
              /\ window' = TxReturnBufferToWindow(buffer, window)
              /\ buffer' = BufferOf("None")
              /\ wxNotified' = (wxNotified \/ TxReturnNotifies(buffer, window))
              /\ UNCHANGED <<poisoned, nPushed, rxNotified>>
         [] PushResult(n) = "panic_poisoned" ->
              \* lock().expect(..) panics before anything is read
              UNCHANGED <<window, buffer, poisoned, nPushed, rxNotified, wxNotified>>
         [] OTHER ->
              \* a panic under the buffer guard poisons the buffer mutex
              /\ poisoned' = TRUE
              /\ UNCHANGED <<window, buffer, nPushed, rxNotified, wxNotified>>
    /\ UNCHANGED <<winNone, tx, rx, wx, chunks, initial, shrunk, rcvd, everReset>>

\* faulty variant of do_close: the queue is not moved into SenderClosed
DoCloseBufferEmpty(b) ==
    IF ~EnsurePeer THEN BufferOf("None")
    ELSE IF b.state = "Sending" THEN BufferOf("SenderClosed")
         ELSE b

\* faulty variant of do_close: awaiting_chunk is carried over into the
\* closed state
DoCloseBufferKeepsTask(b) ==
    IF ~EnsurePeer THEN BufferOf("None")
    ELSE IF b.state = "Sending"
         THEN [b EXCEPT !.state = "SenderClosed"]
         ELSE b

\* ByteSender::do_close: the buffer afterwards
DoCloseBuffer(b) ==
    IF ~EnsurePeer THEN BufferOf("None")
    ELSE IF b.state = "Sending"
         THEN [b EXCEPT !.state = "SenderClosed", !.awaiting_chunk = FALSE]
         ELSE b

\* ByteSender::do_close: the window afterwards
DoCloseWindow(b, w) ==
    IF ~EnsurePeer THEN TxReturnBufferToWindow(b, w) ELSE w

\* faulty variant of do_close: awaiting_chunk is dropped without notify()
DoCloseNotifiesNever(b) == FALSE

\* faulty variant of do_close: the parked task is notified only when bytes
\* are queued
DoCloseNotifiesQueued(b) ==
    EnsurePeer /\ b.state = "Sending" /\ b.awaiting_chunk /\ b.len > 0

\* ByteSender::do_close: the receiver's parked task is notified
DoCloseNotifiesRx(b) == EnsurePeer /\ b.state = "Sending" /\ b.awaiting_chunk

\* ByteSender::do_close: the advertiser's parked task is notified
DoCloseNotifiesWx(b, w) == ~EnsurePeer /\ TxReturnNotifies(b, w)

\* ByteSender::do_close, with the buffer mutex not poisoned
DoClose ==
    /\ buffer' = DoCloseBuffer(buffer)
    /\ window' = DoCloseWindow(buffer, window)
    /\ rxNotified' = (rxNotified \/ DoCloseNotifiesRx(buffer))
    /\ wxNotified' = (wxNotified \/ DoCloseNotifiesWx(buffer, window))

\* ByteSender::close: the call's own do_close; the Drop of `self` follows
TxClose ==
    /\ Running
    /\ tx = "live"
    /\ IF poisoned
       THEN \* the panic unwinds into Drop, which panics again: abort
            /\ tx' = "aborted"
            /\ UNCHANGED <<window, buffer, rxNotified, wxNotified>>
       ELSE /\ tx' = "closed"
            /\ DoClose
    /\ UNCHANGED <<winNone, poisoned, rx, wx, chunks,
                   initial, shrunk, nPushed, rcvd, everReset>>

\* faulty variant of reset: the queue is kept and the stream ends as after
\* close()
ResetBufferClosed(b) ==
    IF b.state = "Sending"
    THEN [b EXCEPT !.state = "SenderClosed", !.awaiting_chunk = FALSE]
    ELSE b

\* ByteSender::reset: the buffer afterwards (the old state, its queue and
\* its awaiting_chunk task are dropped by the assignment)
ResetBuffer(b) == BufferOf("SenderFailed")

\* ByteSender::reset: the call's body; the Drop of `self` follows
TxReset ==
    /\ Running
    /\ tx = "live"
    /\ IF poisoned
       THEN /\ tx' = "aborted"
            /\ UNCHANGED <<window, buffer, wxNotified, everReset>>
       ELSE /\ tx' = "reset"
            /\ window' = TxReturnBufferToWindow(buffer, window)
            /\ buffer' = ResetBuffer(buffer)
            /\ wxNotified' = (wxNotified \/ TxReturnNotifies(buffer, window))
            /\ everReset' = TRUE
    /\ UNCHANGED <<winNone, poisoned, rx, wx, chunks, rxNotified,
                   initial, shrunk, nPushed, rcvd>>

\* Drop for ByteSender: do_close, run when the handle goes out of scope and
\* at the end of close() and reset()
TxDrop ==
    /\ Running
    /\ tx \in {"live", "closed", "reset"}
    /\ tx' = "dropped"
    /\ IF poisoned
       THEN UNCHANGED <<window, buffer, rxNotified, wxNotified>>
       ELSE DoClose
    /\ UNCHANGED <<winNone, poisoned, rx, wx, chunks,
                   initial, shrunk, nPushed, rcvd, everReset>>

\* the sender's fields are dropped in declaration order: buffer, then window
TxReleaseBuffer ==
    /\ Running
    /\ tx = "dropped"
    /\ tx' = "nobuf"
    /\ UNCHANGED <<window, winNone, buffer, poisoned, rx, wx, chunks,
                   rxNotified, wxNotified,
                   initial, shrunk, nPushed, rcvd, everReset>>

TxReleaseWindow ==
    /\ Running
    /\ tx = "nobuf"
    /\ tx' = "gone"
    /\ UNCHANGED <<window, winNone, buffer, poisoned, rx, wx, chunks,
                   rxNotified, wxNotified,
                   initial, shrunk, nPushed, rcvd, everReset>>

(* ------------------------------- Chunk -------------------------------- *)
\* chunk::empty
ChunkEmpty ==
    [kind |-> "Zero", buffers |-> <<>>, remaining |-> 0, window |-> FALSE,
     size |-> 0, credited |-> 0, missed |-> FALSE]

\* chunk::from_bytes
FromBytes(bytes) ==
    IF bytes = <<>> THEN ChunkEmpty
    ELSE [kind |-> "One", buffers |-> <<bytes>>, remaining |-> 0, window |-> TRUE,
          size |-> Len(bytes), credited |-> 0, missed |-> FALSE]

\* chunk::from_vec
FromVec(buffers) ==
    IF Len(buffers) = 0 THEN ChunkEmpty
    ELSE IF Len(buffers) = 1 THEN FromBytes(buffers[1])
    ELSE IF SumLen(buffers) = 0 THEN ChunkEmpty
    ELSE [kind |-> "Many", buffers |-> buffers, remaining |-> SumLen(buffers),
          window |-> TRUE,
          size |-> SumLen(buffers), credited |-> 0, missed |-> FALSE]

\* Chunk::len and Buf::remaining
Remaining(c) ==
    CASE c.kind = "Zero" -> 0
      [] c.kind = "One"  -> Len(c.buffers[1])
      [] c.kind = "Many" -> c.remaining

\* Buf::bytes: the contiguous head slice
ChunkBytes(c) ==
    CASE c.kind = "Zero" -> <<>>
      [] c.kind = "One"  -> c.buffers[1]
      [] c.kind = "Many" -> IF c.buffers = <<>> THEN <<>> ELSE c.buffers[1]

\* Bytes::split_to(at): the prefix returned, and what self keeps
SplitToPrefix(bytes, at) == SubSeq(bytes, 1, at)
SplitToSelf(bytes, at) == SubSeq(bytes, at + 1, Len(bytes))

\* Bytes::split_off(at): the suffix returned, and what self keeps
SplitOffSuffix(bytes, at) == SubSeq(bytes, at + 1, Len(bytes))
SplitOffSelf(bytes, at) == SubSeq(bytes, 1, at)

\* Buf::advance on One: the Bytes held afterwards.  When len == sz the code
\* calls drop() on the `ref mut` borrow, which leaves the Bytes in place.
AdvanceOne(bytes, sz) ==
    IF Len(bytes) = sz THEN bytes ELSE SplitToSelf(bytes, sz)

\* Buf::advance on Many: the segment pushed back after a partial advance
\* (`rest` is what split_to returns)
AdvanceRest(bytes, sz) == SplitToPrefix(bytes, sz)

\* Buf::advance on Many, the pop_front loop: the queue afterwards
RECURSIVE AdvanceMany(_, _)
AdvanceMany(buffers, sz) ==
    IF buffers = <<>> THEN <<>>
    ELSE IF sz < Len(Head(buffers))
         THEN <<AdvanceRest(Head(buffers), sz)>> \o Tail(buffers)
         ELSE IF sz - Len(Head(buffers)) = 0
              THEN Tail(buffers)
              ELSE AdvanceMany(Tail(buffers), sz - Len(Head(buffers)))

\* Buf::advance on Many: the loop returns (it does not run off the queue)
RECURSIVE AdvanceManyReturns(_, _)
AdvanceManyReturns(buffers, sz) ==
    IF buffers = <<>> THEN FALSE
    ELSE IF sz < Len(Head(buffers)) THEN TRUE
         ELSE IF sz - Len(Head(buffers)) = 0 THEN TRUE
              ELSE AdvanceManyReturns(Tail(buffers), sz - Len(Head(buffers)))

\* Buf::advance: the call panics
AdvancePanics(c, sz) ==
    /\ sz # 0
    /\ CASE c.kind = "Zero" -> TRUE
         [] c.kind = "One"  -> Len(c.buffers[1]) < sz
         [] c.kind = "Many" -> c.remaining < sz \/ ~AdvanceManyReturns(c.buffers, sz)

\* Buf::advance: the chunk's bytes afterwards
AdvanceChunk(c, sz) ==
    IF sz = 0 THEN c
    ELSE CASE c.kind = "Zero" -> c
           [] c.kind = "One"  ->
                IF Len(c.buffers[1]) < sz THEN c
                ELSE [c EXCEPT !.buffers = <<AdvanceOne(c.buffers[1], sz)>>]
           [] c.kind = "Many" ->
                IF c.remaining < sz THEN c
                ELSE IF AdvanceManyReturns(c.buffers, sz)
                     THEN [c EXCEPT !.buffers = AdvanceMany(c.buffers, sz),
                                    !.remaining = c.remaining - sz]
                     ELSE [c EXCEPT !.buffers = <<>>]

\* Chunk::add_capacity: the window afterwards
AddCapacity(w, sz) ==
    IF sz = 0 \/ ~WindowAlive THEN w ELSE AdvertiseIncrement(w, sz)

\* Chunk::add_capacity: the chunk's history of it
Credit(c, sz) ==
    IF sz = 0 THEN c
    ELSE IF WindowAlive THEN [c EXCEPT !.credited = c.credited + sz]
         ELSE [c EXCEPT !.missed = TRUE]

\* the amount Buf::advance passes to add_capacity
AdvanceCredit(c, sz) ==
    IF sz = 0 \/ AdvancePanics(c, sz) \/ ~c.window THEN 0 ELSE sz

\* the amount Drop for Chunk passes to add_capacity
DropCredit(c) == IF c.window THEN Remaining(c) ELSE 0

\* the list without its i-th element
Remove(s, i) == SubSeq(s, 1, i - 1) \o SubSeq(s, i + 1, Len(s))

\* Chunk::add_capacity: the advertiser's parked task is notified
AddCapacityNotifies(w, sz) ==
    sz # 0 /\ WindowAlive /\ AdvertiseNotifies(w, sz)

\* Buf::advance on the i-th live chunk
ChunkAdvance(i, sz) ==
    /\ Running
    /\ i \in 1..Len(chunks)
    /\ LET c == chunks[i]
           k == AdvanceCredit(c, sz)
       IN  /\ AddCapacity(window, k).pending_increment
                + AddCapacity(window, k).advertised <= MaxCredit
           /\ chunks' = [chunks EXCEPT ![i] = Credit(AdvanceChunk(c, sz), k)]
           /\ window' = AddCapacity(window, k)
           /\ wxNotified' = (wxNotified \/ AddCapacityNotifies(window, k))
    /\ UNCHANGED <<winNone, buffer, poisoned, tx, rx, wx, rxNotified,
                   initial, shrunk, nPushed, rcvd, everReset>>

\* Drop for Chunk, on the i-th live chunk
ChunkDrop(i) ==
    /\ Running
    /\ i \in 1..Len(chunks)
    /\ LET c == chunks[i]
           k == DropCredit(c)
       IN  /\ chunks' = Remove(chunks, i)
           /\ window' = AddCapacity(window, k)
           /\ wxNotified' = (wxNotified \/ AddCapacityNotifies(window, k))
    /\ UNCHANGED <<winNone, buffer, poisoned, tx, rx, wx, rxNotified,
                   initial, shrunk, nPushed, rcvd, everReset>>

(* ---------------------------- ByteReceiver ---------------------------- *)
\* ByteReceiver::assemble_chunk: the slices moved into the chunk
RECURSIVE AssembleChunk(_, _)
AssembleChunk(buffers, sz) ==
    IF sz = 0 \/ buffers = <<>> THEN <<>>
    ELSE IF sz < Len(Head(buffers))
         THEN <<SplitOffSelf(Head(buffers), sz)>>
         ELSE <<Head(buffers)>> \o AssembleChunk(Tail(buffers), sz - Len(Head(buffers)))

\* faulty variant of assemble_chunk: the overhanging slice is pushed back
\* whole instead of the part split off
RECURSIVE AssembleRestWhole(_, _)
AssembleRestWhole(buffers, sz) ==
    IF sz = 0 \/ buffers = <<>> THEN buffers
    ELSE IF sz < Len(Head(buffers))
         THEN buffers
         ELSE AssembleRestWhole(Tail(buffers), sz - Len(Head(buffers)))

\* ByteReceiver::assemble_chunk: the queue left behind
RECURSIVE AssembleRest(_, _)
AssembleRest(buffers, sz) ==
    IF sz = 0 \/ buffers = <<>> THEN buffers
    ELSE IF sz < Len(Head(buffers))
         THEN <<SplitOffSuffix(Head(buffers), sz)>> \o Tail(buffers)
         ELSE AssembleRest(Tail(buffers), sz - Len(Head(buffers)))

\* faulty variant of poll_chunk: max_sz == 0 is not answered before the
\* buffer is looked at
PollChunkResultLocksFirst(max_sz) ==
    IF poisoned THEN "panic_poisoned"
    ELSE IF buffer.state = "None" THEN "ReadyNone"
    ELSE IF buffer.state = "LostReceiver" THEN "panic_state"
    ELSE IF buffer.state = "SenderFailed" THEN "Err"
    ELSE IF buffer.len = 0
         THEN (IF buffer.state = "Sending" THEN "NotReady" ELSE "ReadyNone")
    ELSE "ReadySome"

\* ByteReceiver::poll_chunk: what it returns
PollChunkResult(max_sz) ==
    IF max_sz = 0 THEN "ReadySome"
    ELSE IF poisoned THEN "panic_poisoned"
    ELSE IF buffer.state = "None" THEN "ReadyNone"
    ELSE IF buffer.state = "LostReceiver" THEN "panic_state"
    ELSE IF buffer.state = "SenderFailed" THEN "Err"
    ELSE IF buffer.len = 0
         THEN (IF buffer.state = "Sending" THEN "NotReady" ELSE "ReadyNone")
    ELSE "ReadySome"

\* faulty variant of poll_chunk: max_sz is ignored
PollSizeAll(b, max_sz) == b.len

\* ByteReceiver::poll_chunk: the number of bytes sliced off the queue
PollSize(b, max_sz) == Min(b.len, max_sz)

\* ByteReceiver::poll_chunk: the chunk returned with Ready(Some(..))
PollChunk(b, max_sz) ==
    IF max_sz = 0 THEN ChunkEmpty
    ELSE FromVec(AssembleChunk(b.buffers, PollSize(b, max_sz)))

\* faulty variant of poll_chunk: after take() the Sending branch stores no
\* state again when bytes are left, as the Draining branch of lib.rs
PollBufferNotRestored(b, max_sz) ==
    IF b.len - PollSize(b, max_sz) = 0 /\ b.state = "Sending"
    THEN [b EXCEPT !.len = 0, !.buffers = <<>>, !.awaiting_chunk = FALSE]
    ELSE BufferOf("None")

\* ByteReceiver::poll_chunk, the branches that slice: the buffer afterwards
PollBuffer(b, max_sz) ==
    IF b.state = "Sending"
    THEN [b EXCEPT !.len = b.len - PollSize(b, max_sz),
                   !.buffers = AssembleRest(b.buffers, PollSize(b, max_sz)),
                   !.awaiting_chunk = FALSE]
    ELSE IF b.len - PollSize(b, max_sz) = 0
         THEN BufferOf("None")
         ELSE [b EXCEPT !.len = b.len - PollSize(b, max_sz),
                        !.buffers = AssembleRest(b.buffers, PollSize(b, max_sz))]

\* faulty variant of poll_chunk: the credit is returned when the bytes are
\* read, as the capacity of the channel in lib.rs is
PollWindowAtRead(w, max_sz) ==
    IF max_sz = 0 \/ poisoned \/ buffer.state \notin {"Sending", "SenderClosed"}
    THEN w
    ELSE AdvertiseIncrement(w, PollSize(buffer, max_sz))

\* ByteReceiver::poll_chunk: the window afterwards (the call never locks it)
PollWindow(w, max_sz) == w

\* ByteReceiver::poll_chunk
RxPoll(max_sz) ==
    /\ Running
    /\ rx = "live"
    /\ Len(chunks) < MaxChunks
    /\ rxNotified' = FALSE
    /\ window' = PollWindow(window, max_sz)
    /\ CASE PollChunkResult(max_sz) = "ReadySome" ->
              /\ buffer' = IF max_sz = 0 THEN buffer ELSE PollBuffer(buffer, max_sz)
              /\ chunks' = Append(chunks, PollChunk(buffer, max_sz))
              /\ rcvd' = rcvd \o Concat(PollChunk(buffer, max_sz).buffers)
              /\ UNCHANGED poisoned
         [] PollChunkResult(max_sz) = "NotReady" ->
              /\ buffer' = [buffer EXCEPT !.awaiting_chunk = TRUE]
              /\ UNCHANGED <<poisoned, chunks, rcvd>>
         [] PollChunkResult(max_sz) \in {"ReadyNone", "Err"} ->
              /\ buffer' = Take(buffer)
              /\ UNCHANGED <<poisoned, chunks, rcvd>>
         [] PollChunkResult(max_sz) = "panic_state" ->
              \* unreachable!() under the buffer guard
              /\ buffer' = Take(buffer)
              /\ poisoned' = TRUE
              /\ UNCHANGED <<chunks, rcvd>>
         [] PollChunkResult(max_sz) = "panic_poisoned" ->
              UNCHANGED <<buffer, poisoned, chunks, rcvd>>
    /\ UNCHANGED <<winNone, tx, rx, wx, wxNotified,
                   initial, shrunk, nPushed, everReset>>

\* ByteReceiver::shrink_window
RxShrink(sz) ==
    /\ Running
    /\ rx = "live"
    /\ shrunk + sz <= MaxShrink
    /\ window' = Shrink(window, sz)
    /\ shrunk' = shrunk + sz
    /\ UNCHANGED <<winNone, buffer, poisoned, tx, rx, wx, chunks,
                   rxNotified, wxNotified,
                   initial, nPushed, rcvd, everReset>>

\* sync::return_buffer_to_window: the window afterwards
ReturnBufferToWindow(b, w) ==
    IF BufferLen(b) = 0 THEN w ELSE AdvertiseIncrement(w, BufferLen(b))

\* Drop for ByteReceiver: the buffer handed to return_buffer_to_window is
\* the guard's contents, read after take() has emptied the slot
RxDropReturned(b) == Take(b)

\* Drop for ByteReceiver: the buffer afterwards
RxDropBuffer(b) == IF b.state = "None" THEN b ELSE BufferOf("LostReceiver")

\* Drop for ByteReceiver: the window afterwards
RxDropWindow(b, w) ==
    IF b.state = "None" THEN w ELSE ReturnBufferToWindow(RxDropReturned(b), w)

\* Drop for ByteReceiver: the advertiser's parked task is notified
RxDropNotifies(b, w) ==
    /\ b.state # "None"
    /\ BufferLen(RxDropReturned(b)) # 0
    /\ AdvertiseNotifies(w, BufferLen(RxDropReturned(b)))

\* Drop for ByteReceiver: the body; the fields are released afterwards
RxDrop ==
    /\ Running
    /\ rx = "live"
    /\ rx' = "dropped"
    /\ IF poisoned
       THEN \* `if let Ok(..) = self.buffer.lock()` skips the body
            UNCHANGED <<window, buffer, wxNotified>>
       ELSE /\ buffer' = RxDropBuffer(buffer)
            /\ window' = RxDropWindow(buffer, window)
            /\ wxNotified' = (wxNotified \/ RxDropNotifies(buffer, window))
    /\ UNCHANGED <<winNone, poisoned, tx, wx, chunks, rxNotified,
                   initial, shrunk, nPushed, rcvd, everReset>>

\* the receiver's fields are dropped in declaration order: buffer, then window
RxReleaseBuffer ==
    /\ Running
    /\ rx = "dropped"
    /\ rx' = "nobuf"
    /\ UNCHANGED <<window, winNone, buffer, poisoned, tx, wx, chunks,
                   rxNotified, wxNotified,
                   initial, shrunk, nPushed, rcvd, everReset>>

RxReleaseWindow ==
    /\ Running
    /\ rx = "nobuf"
    /\ rx' = "gone"
    /\ UNCHANGED <<window, winNone, buffer, poisoned, tx, wx, chunks,
                   rxNotified, wxNotified,
                   initial, shrunk, nPushed, rcvd, everReset>>

(* -------------------------------- Next -------------------------------- *)
Next ==
    \/ WxPoll
    \/ WxDrop
    \/ \E n \in 1..MaxPush : TxPush(n)
    \/ TxClose
    \/ TxReset
    \/ TxDrop
    \/ TxReleaseBuffer
    \/ TxReleaseWindow
    \/ \E max_sz \in 1..MaxSz : RxPoll(max_sz)
    \/ \E sz \in 1..MaxShrink : RxShrink(sz)
    \/ RxDrop
    \/ RxReleaseBuffer
    \/ RxReleaseWindow
    \/ \E i \in 1..MaxChunks, sz \in 0..MaxSz : ChunkAdvance(i, sz)
    \/ \E i \in 1..MaxChunks : ChunkDrop(i)

Spec == Init /\ [][Next]_vars

(* ------------------------- credit conservation ------------------------ *)
\* bytes remaining in the live chunks
RECURSIVE ChunksRemaining(_)
ChunksRemaining(cs) ==
    IF cs = <<>> THEN 0 ELSE Remaining(Head(cs)) + ChunksRemaining(Tail(cs))

\* the credit in circulation: advertised, pending, queued and held by chunks,
\* less the debt left by shrink
Circulating ==
    window.advertised + window.pending_increment + BufferLen(buffer)
        + ChunksRemaining(chunks) - window.underflow

\* C1: credit conservation.  While the window is open (a handle still holds
\* it and the advertiser has not closed it), in every reachable state
\* advertised + pending + bytes queued in the buffer + bytes remaining in
\* live chunks - underflow equals initial_window_size less the sum of all
\* shrink amounts.
CreditConserved ==
    (WindowAlive /\ ~winNone) => Circulating = initial - shrunk

(* ----------------------------- round trip ----------------------------- *)
\* the concatenation of all bytes accepted by push_bytes so far
AllPushed == [i \in 1..nPushed |-> i]

\* s is a prefix of t
IsPrefix(s, t) == Len(s) <= Len(t) /\ s = SubSeq(t, 1, Len(s))

\* C2: round trip.  In a run without reset and without receiver drop, after
\* every step the concatenation of the bytes of the chunks returned so far
\* is a prefix of the concatenation of the bytes pushed, and a poll_chunk
\* with max_sz > 0 returns Ready(None) only when the two are equal.
RoundTrip ==
    [][(~everReset' /\ rx' = "live") =>
          /\ IsPrefix(rcvd', [i \in 1..nPushed' |-> i])
          /\ \A max_sz \in 1..MaxSz :
                (RxPoll(max_sz) /\ PollChunkResult(max_sz) = "ReadyNone")
                    => rcvd = AllPushed]_vars

\* C2 witness: every byte was pushed, the sender closed, and the receiver
\* drained the channel in more than one chunk
RoundTripWitness ==
    /\ ~everReset /\ rx = "live"
    /\ nPushed = MaxBytes /\ rcvd = AllPushed
    /\ buffer.state = "None" /\ tx = "closed"
    /\ Len(chunks) >= 2

(* ---------------------------- chunk credit ---------------------------- *)
\* C3: each byte of a chunk returns its credit exactly once.  For every live
\* chunk whose add_capacity calls all found the window alive, the amounts
\* passed to advertise_increment so far plus the amount its Drop will pass
\* equal the number of bytes the chunk was created with.
CreditedExactlyOnce ==
    \A i \in 1..Len(chunks) :
        (chunks[i].window /\ ~chunks[i].missed /\ WindowAlive)
            => chunks[i].credited + DropCredit(chunks[i]) = chunks[i].size

\* C4: advance(n) with 0 < n <= remaining() decreases remaining() by exactly
\* n and calls advertise_increment(n) on the live window, for One and for
\* Many, n == remaining() included.
AdvanceConsumes ==
    [][\A i \in 1..MaxChunks, sz \in 1..MaxSz :
          (/\ ChunkAdvance(i, sz)
           /\ chunks[i].kind \in {"One", "Many"}
           /\ sz <= Remaining(chunks[i])
           /\ WindowAlive)
          => /\ Remaining(chunks'[i]) = Remaining(chunks[i]) - sz
             /\ window' = AdvertiseIncrement(window, sz)]_vars

(* ----------------------------- poll_chunk ----------------------------- *)
\* the bytes of a queue of slices, and of the chunk returned last
Queued(b) == Concat(b.buffers)
Returned(cs) == Concat(cs[Len(cs)].buffers)

\* C5: poll_chunk(max_sz) with max_sz > 0 on a buffer (its lock healthy) in
\* state Sending or SenderClosed with len > 0 returns Ready(Some(chunk)):
\* the chunk has remaining() = min(len, max_sz), its bytes are the head of
\* the queue, the rest of the queue stays, and len drops by that amount.
PollTakesHead ==
    [][\A max_sz \in 1..MaxSz :
          (/\ RxPoll(max_sz)
           /\ ~poisoned
           /\ buffer.state \in {"Sending", "SenderClosed"}
           /\ buffer.len > 0)
          => LET n == Min(buffer.len, max_sz)
             IN  /\ PollChunkResult(max_sz) = "ReadySome"
                 /\ Len(chunks') = Len(chunks) + 1
                 /\ Remaining(chunks'[Len(chunks')]) = n
                 /\ Returned(chunks') = SubSeq(Queued(buffer), 1, n)
                 /\ Queued(buffer') = SubSeq(Queued(buffer), n + 1, buffer.len)
                 /\ BufferLen(buffer') = buffer.len - n]_vars

\* C5 witness: a poll has taken part of the queue and left the rest
PollTakesHeadWitness ==
    /\ Len(chunks) = 1 /\ Remaining(chunks[1]) = 1 /\ chunks[1].credited = 0
    /\ buffer.state \in {"Sending", "SenderClosed"} /\ buffer.len = 1
    /\ rcvd = <<1>> /\ Queued(buffer) = <<2>>

\* C6: poll_chunk never changes the window, whatever it returns, so what
\* the advertiser's next poll yields is the same before and after the call.
PollKeepsWindow ==
    [][\A max_sz \in 1..MaxSz :
          RxPoll(max_sz)
          => /\ window' = window
             /\ ApplyIncrementResult(window') = ApplyIncrementResult(window)]_vars

\* C6 witness: a chunk has been returned and not yet consumed, the whole
\* window is spent, and the advertiser has nothing to yield
PollKeepsWindowWitness ==
    /\ Len(chunks) = 1 /\ chunks[1].credited = 0
    /\ Remaining(chunks[1]) = initial /\ initial > 0 /\ shrunk = 0
    /\ ApplyIncrementResult(window) = -1 /\ window.advertised = 0
    /\ wx = "live" /\ ~winNone

(* ----------------------------- push_bytes ----------------------------- *)
\* C7: push_bytes(b) with the receiver alive (and the buffer lock healthy)
\* and b.len() <= advertised succeeds: b is appended at the tail of the
\* queue, len grows by b.len(), advertised drops by exactly b.len(),
\* awaiting_chunk is taken and its task notified if it was set, pending and
\* underflow stay.
PushAccepted ==
    [][\A n \in 1..MaxPush :
          (/\ TxPush(n)
           /\ rx = "live" /\ ~poisoned
           /\ n <= window.advertised)
          => /\ PushResult(n) = "Ok"
             /\ buffer'.buffers = Append(buffer.buffers, NewBytes(n))
             /\ Len(NewBytes(n)) = n
             /\ BufferLen(buffer') = BufferLen(buffer) + n
             /\ window'.advertised = window.advertised - n
             /\ window'.pending_increment = window.pending_increment
             /\ window'.underflow = window.underflow
             /\ ~buffer'.awaiting_chunk
             /\ (buffer.awaiting_chunk => rxNotified')]_vars

\* C7 witness: a push behind a queued slice has woken the parked receiver
PushAcceptedWitness ==
    /\ rx = "live" /\ tx = "live" /\ ~poisoned
    /\ Len(buffer.buffers) = 2 /\ buffer.len = 2
    /\ rxNotified /\ ~buffer.awaiting_chunk

\* C8: push_bytes(b) with the receiver alive (and the buffer lock healthy)
\* and b.len() > advertised panics; the queue, len, advertised, pending
\* and underflow are what they were, and nothing counts as pushed.
PushOverflowPanics ==
    [][\A n \in 1..MaxPush :
          (/\ TxPush(n)
           /\ rx = "live" /\ ~poisoned
           /\ n > window.advertised)
          => /\ PushResult(n) = "panic_overflow"
             /\ poisoned'
             /\ buffer' = buffer
             /\ window' = window
             /\ nPushed' = nPushed]_vars

\* C8 witness: a push has panicked under the buffer guard with the receiver
\* alive and bytes queued
PushOverflowWitness ==
    /\ poisoned /\ rx = "live" /\ tx = "live"
    /\ buffer.state = "Sending" /\ buffer.len > 0

\* C9: whenever the buffer state is LostReceiver, push_bytes returns the
\* peer-loss error: it does not panic and does not enqueue, also when the
\* receiver's Drop body has run and its reference is not yet released.
PushAfterLostReceiver ==
    [][\A n \in 1..MaxPush :
          (/\ TxPush(n)
           /\ ~poisoned
           /\ buffer.state = "LostReceiver")
          => /\ PushResult(n) = "LostPeer"
             /\ ~poisoned'
             /\ buffer'.buffers = <<>>]_vars

(* --------------------------- receiver drop ---------------------------- *)
\* C10: when the receiver is dropped while the buffer (Sending or
\* SenderClosed) holds len > 0 bytes, the window receives
\* advertise_increment(len) and the buffer becomes LostReceiver; when the
\* buffer is None, the drop changes neither buffer nor window.
RxDropReturnsCredit ==
    [][(RxDrop /\ ~poisoned) =>
          /\ (buffer.state \in {"Sending", "SenderClosed"} /\ buffer.len > 0)
                => /\ window' = AdvertiseIncrement(window, buffer.len)
                   /\ buffer'.state = "LostReceiver"
          /\ buffer.state = "None"
                => (buffer' = buffer /\ window' = window)]_vars

(* ------------------------------- reset -------------------------------- *)
\* C11: after reset(e) the error is delivered exactly once.  With the
\* receiver alive the buffer is SenderFailed or destroyed and never leaves
\* destroyed; a poll_chunk(max_sz > 0) on SenderFailed returns Err and
\* destroys the buffer, every other one returns Ready(None); no step
\* returns a chunk, so none of the bytes queued at the reset is returned.
ResetDeliveredOnce ==
    [][(everReset /\ rx = "live") =>
          /\ buffer.state \in {"SenderFailed", "None"}
          /\ buffer.state = "None" => buffer'.state = "None"
          /\ rcvd' = rcvd /\ Len(chunks') <= Len(chunks)
          /\ \A max_sz \in 1..MaxSz :
                RxPoll(max_sz) =>
                    /\ PollChunkResult(max_sz) =
                          (IF buffer.state = "SenderFailed" THEN "Err"
                                                           ELSE "ReadyNone")
                    /\ buffer'.state = "None"]_vars

\* C11 witness: bytes were queued at the reset, the error has been
\* delivered, and no byte was ever returned
ResetDeliveredOnceWitness ==
    /\ everReset /\ rx = "live" /\ buffer.state = "None"
    /\ nPushed = MaxBytes /\ rcvd = <<>> /\ chunks = <<>>


\* reset(e) with len bytes queued passes len to the window once and stores
\* SenderFailed
ResetReturns ==
    (TxReset /\ ~poisoned) =>
        /\ window' = AdvertiseIncrement(window, BufferLen(buffer))
        /\ buffer'.state = "SenderFailed"

\* C12 as stated: reset(e) returns exactly len units of credit before the
\* buffer becomes SenderFailed(e), and the sender's own drop that follows
\* returns no further credit and leaves the state SenderFailed(e).
ResetThenDropKeepsFailed ==
    [][/\ ResetReturns
       /\ (TxDrop /\ tx = "reset" /\ buffer.state = "SenderFailed")
             => (window' = window /\ buffer'.state = "SenderFailed")]_vars

\* C12 amended: reset(e) returns exactly len units of credit before the
\* buffer becomes SenderFailed(e); the sender's own drop that follows
\* returns no further credit, leaves the buffer as it is while the receiver
\* still holds its reference, and destroys it (None) once that reference is
\* released.
ResetThenDrop ==
    [][/\ ResetReturns
       /\ (TxDrop /\ tx = "reset")
             => /\ window' = window
                /\ buffer' = IF EnsurePeer THEN buffer ELSE BufferOf("None")]_vars

\* C12 witness: reset found every pushed byte queued and returned its
\* credit, the sender's drop has followed, and the error is still to be
\* read
ResetThenDropWitness ==
    /\ everReset /\ tx = "dropped" /\ rx = "live"
    /\ nPushed = MaxBytes /\ rcvd = <<>>
    /\ window.pending_increment = MaxBytes
    /\ buffer.state = "SenderFailed"


(* --------------------------- close and drop --------------------------- *)
\* the receiver drains a channel whose sender is gone without reset:
\* poll_chunk(max_sz) with max_sz > 0 returns neither NotReady nor Err; it
\* returns the head of the queue while bytes are queued, leaving less, and
\* Ready(None) once every pushed byte has been returned
Drains ==
    \A max_sz \in 1..MaxSz :
        RxPoll(max_sz) =>
            /\ buffer.state \in {"SenderClosed", "None"}
            /\ PollChunkResult(max_sz) =
                  (IF BufferLen(buffer) > 0 THEN "ReadySome" ELSE "ReadyNone")
            /\ BufferLen(buffer) > 0 =>
                  /\ Returned(chunks') =
                        SubSeq(Queued(buffer), 1, Min(buffer.len, max_sz))
                  /\ Queued(buffer') =
                        SubSeq(Queued(buffer), Min(buffer.len, max_sz) + 1,
                               buffer.len)
                  /\ BufferLen(buffer') < BufferLen(buffer)
            /\ BufferLen(buffer) = 0 => (rcvd = AllPushed /\ rcvd' = rcvd)
            /\ buffer'.state \in {"SenderClosed", "None"}

\* C13: close() with n bytes queued and the receiver alive leaves the
\* buffer SenderClosed with the same len and queue; from then on
\* poll_chunk(max_sz > 0) never returns NotReady or Err, returns the n
\* bytes in FIFO order and then Ready(None).
CloseThenDrain ==
    [][/\ (TxClose /\ ~poisoned /\ rx = "live")
             => /\ buffer.state = "Sending"
                /\ buffer' = [buffer EXCEPT !.state = "SenderClosed",
                                            !.awaiting_chunk = FALSE]
                /\ window' = window
       /\ (tx \in {"closed", "dropped", "nobuf", "gone"}
              /\ ~everReset /\ ~poisoned /\ rx = "live")
             => Drains]_vars

\* C13 witness: the sender closed with two slices queued and the receiver
\* drained them in one chunk and reached the end of the stream
CloseThenDrainWitness ==
    /\ tx = "closed" /\ rx = "live" /\ ~everReset
    /\ buffer.state = "None" /\ rcvd = AllPushed /\ nPushed = MaxBytes
    /\ Len(chunks) = 1 /\ chunks[1].kind = "Many"


\* dropping a sender that was neither closed nor reset, with the receiver
\* alive: Sending becomes SenderClosed with len and queue intact, the window
\* is untouched and a parked receiver is notified
DropCloses ==
    (TxDrop /\ tx = "live" /\ ~poisoned /\ rx = "live") =>
        /\ buffer.state = "Sending"
        /\ buffer' = [buffer EXCEPT !.state = "SenderClosed",
                                    !.awaiting_chunk = FALSE]
        /\ window' = window
        /\ buffer.awaiting_chunk => rxNotified'

\* after such a drop the receiver gets chunks and then Ready(None), never
\* Err and never NotReady
DropDrains ==
    (tx \in {"dropped", "nobuf", "gone"} /\ ~everReset /\ ~poisoned
        /\ rx = "live") =>
        \A max_sz \in 1..MaxSz :
            RxPoll(max_sz) =>
                PollChunkResult(max_sz) =
                    (IF BufferLen(buffer) > 0 THEN "ReadySome" ELSE "ReadyNone")

\* C14 as stated: dropping the sender has the effect of close(), the
\* receiver drains to Ready(None) and never sees Err, and a drop that
\* follows close() changes nothing further.
DropAfterCloseChangesNothing ==
    [][/\ DropCloses
       /\ DropDrains
       /\ (TxDrop /\ tx = "closed")
             => (buffer' = buffer /\ window' = window)]_vars

\* C14 amended: as above, but a drop that follows close() changes nothing
\* further only while the receiver still holds its reference to the buffer;
\* once that reference is released the drop destroys the buffer (None), as
\* close() itself does, and still leaves the window alone.
DropIsClose ==
    [][/\ DropCloses
       /\ DropDrains
       /\ (TxDrop /\ tx = "closed")
             => /\ window' = window
                /\ buffer' = IF EnsurePeer THEN buffer
                                           ELSE BufferOf("None")]_vars

\* C14 witness: the sender was dropped with every byte queued and the
\* receiver parked; the queue is intact and the receiver has been woken
DropIsCloseWitness ==
    /\ tx = "dropped" /\ rx = "live" /\ ~everReset /\ ~poisoned
    /\ buffer.state = "SenderClosed" /\ buffer.len = MaxBytes
    /\ Len(buffer.buffers) = 1 /\ rxNotified


(* --------------------------- end of stream ---------------------------- *)
\* the operations of Next, and poll_chunk(0)
NextZero ==
    \/ Next
    \/ RxPoll(0)

SpecZero == Init /\ [][NextZero]_vars

\* the receiver is alive and has seen the end of the stream: the buffer is
\* destroyed
Terminated == rx = "live" /\ buffer.state = "None"

\* a poll_chunk(max_sz > 0) that returns Ready(None) or Err leaves the
\* buffer destroyed, and a destroyed buffer stays destroyed (and its lock
\* healthy) for as long as the receiver lives
TerminationSticks ==
    /\ \A max_sz \in 1..MaxSz :
          (RxPoll(max_sz) /\ PollChunkResult(max_sz) \in {"ReadyNone", "Err"})
              => Terminated'
    /\ Terminated => (~poisoned /\ (rx' = "live" => Terminated'))

\* C15 as stated: once poll_chunk has returned Ready(None) or Err, every
\* later poll_chunk, for any max_sz, returns Ready(None).
AlwaysNoneAfterEnd ==
    [][/\ TerminationSticks
       /\ Terminated =>
             \A max_sz \in 0..MaxSz :
                 RxPoll(max_sz) => PollChunkResult(max_sz) = "ReadyNone"]_vars

\* C15 amended: once poll_chunk has returned Ready(None) or Err, every
\* later poll_chunk with max_sz > 0 returns Ready(None); poll_chunk(0)
\* still returns Ready(Some(chunk)) with the empty chunk.
NoneAfterEnd ==
    [][/\ TerminationSticks
       /\ Terminated =>
             /\ \A max_sz \in 1..MaxSz :
                   RxPoll(max_sz) =>
                       /\ PollChunkResult(max_sz) = "ReadyNone"
                       /\ chunks' = chunks
             /\ RxPoll(0) =>
                   /\ PollChunkResult(0) = "ReadySome"
                   /\ chunks' = Append(chunks, ChunkEmpty)]_vars

\* C15 witness: the error of a reset has been delivered and a later
\* poll_chunk(0) has returned an empty chunk
NoneAfterEndWitness ==
    /\ Terminated /\ everReset
    /\ nPushed = 0 /\ Len(chunks) = 1 /\ chunks[1] = ChunkEmpty


(* -------------------------- WindowAdvertiser -------------------------- *)
\* C16: every increment the advertiser yields is strictly positive.  A poll
\* returns Ready(Some(k)) with k > 0, advertised grown by exactly k and
\* nothing left pending, or it returns NotReady or Ready(None) and leaves
\* advertised alone; it never returns Ready(Some(0)).
YieldsPositive ==
    [][WxPoll =>
          /\ WxPollResult \in {"Ready", "NotReady", "ReadyNone"}
          /\ WxPollResult = "Ready" =>
                /\ ApplyIncrementResult(window) > 0
                /\ window'.advertised =
                      window.advertised + ApplyIncrementResult(window)
                /\ window'.pending_increment = 0
                /\ window'.underflow = 0
          /\ WxPollResult # "Ready" =>
                window'.advertised = window.advertised]_vars

\* C16 witness: the window was shrunk before the first poll, and the poll
\* yielded what was left of the initial window
YieldsPositiveWitness ==
    /\ initial = MaxWindow /\ shrunk = 1 /\ nPushed = 0 /\ wx = "live"
    /\ window.advertised = initial - shrunk
    /\ window.pending_increment = 0 /\ window.underflow = 0


(* ---------------------------- notification ---------------------------- *)
\* C17: single notification.  A step that leaves a wake-up pending for the
\* receiver (the advertiser) found its task in awaiting_chunk (in the
\* window's blocked slot) and removed it in the same step; a slot is filled
\* only by its owner's own poll returning without a value, which consumes
\* the pending wake-up; so a filled slot and a pending wake-up never
\* coexist, and a task parked once is notified at most once before it
\* parks again.
SingleNotification ==
    [][/\ (rxNotified' /\ ~rxNotified)
             => (buffer.awaiting_chunk /\ ~buffer'.awaiting_chunk)
       /\ (wxNotified' /\ ~wxNotified)
             => (window.blocked /\ ~window'.blocked)
       /\ (buffer'.awaiting_chunk /\ ~buffer.awaiting_chunk)
             => \E max_sz \in 1..MaxSz :
                    RxPoll(max_sz) /\ PollChunkResult(max_sz) = "NotReady"
       /\ (window'.blocked /\ ~window.blocked)
             => (WxPoll /\ WxPollResult # "Ready")
       /\ ~(rxNotified' /\ buffer'.awaiting_chunk)
       /\ ~(wxNotified' /\ window'.blocked)]_vars

\* C17 witness: both parked tasks have been notified, the advertiser's by
\* the drop of a chunk and the receiver's by a later push, and both slots
\* are empty
SingleNotificationWitness ==
    /\ rxNotified /\ ~buffer.awaiting_chunk
    /\ wxNotified /\ ~window.blocked
    /\ tx = "live" /\ rx = "live" /\ wx = "live" /\ chunks = <<>>
    /\ nPushed = MaxBytes /\ rcvd = <<1>> /\ Queued(buffer) = <<2>>


(* ---------------------------- new channel ----------------------------- *)
\* the window as sync::new leaves it: nothing polled, shrunk or returned
FreshWindow ==
    /\ window.pending_increment = initial /\ window.advertised = 0
    /\ window.underflow = 0 /\ ~window.blocked

\* C18: a new channel starts with pending = w, advertised = 0, underflow = 0
\* and an empty Sending buffer; available_window() leaves 0 only by an
\* advertiser poll; the first poll, on the untouched window with sender and
\* receiver alive, yields exactly w when w > 0, after which
\* available_window() is w, and returns NotReady when w = 0.
NewChannel ==
    /\ FreshWindow /\ AvailableWindow = 0
    /\ buffer.state = "Sending" /\ buffer.len = 0 /\ buffer.buffers = <<>>
    /\ ~buffer.awaiting_chunk
    /\ [][/\ (AvailableWindow = 0 /\ AvailableWindow' # 0) => WxPoll
          /\ (WxPoll /\ FreshWindow /\ tx = "live" /\ rx = "live") =>
                IF initial > 0
                THEN /\ WxPollResult = "Ready"
                     /\ ApplyIncrementResult(window) = initial
                     /\ AvailableWindow' = initial
                ELSE /\ WxPollResult = "NotReady"
                     /\ AvailableWindow' = 0]_vars

\* C18 witness: the first poll of a new channel has yielded the whole
\* initial window and nothing else has happened
NewChannelWitness ==
    /\ initial = MaxWindow /\ AvailableWindow = initial
    /\ window.pending_increment = 0 /\ shrunk = 0 /\ nPushed = 0
    /\ buffer = BufferDefault /\ tx = "live" /\ rx = "live" /\ wx = "live"
    /\ ~poisoned


(* ---------------------------- termination ----------------------------- *)
\* the sender and the receiver have released the window and no chunk holds
\* a reference to it
AllGone == tx = "gone" /\ rx = "gone" /\ WindowWeak = 0

\* credit is pending that a poll would yield
CreditPending == ~winNone /\ ApplyIncrementResult(window) # -1

\* C19 as stated: an advertiser poll after the sender, the receiver and
\* every chunk have been dropped returns Ready(None), and so does every
\* later poll.
EndsAtOnceWhenAllGone ==
    [][(WxPoll /\ AllGone) => WxPollResult = "ReadyNone"]_vars

\* C19 amended: an advertiser poll after the sender, the receiver and every
\* chunk have been dropped returns Ready(None), unless credit returned
\* earlier is still pending: that poll yields the pending credit and leaves
\* none, so the poll after it returns Ready(None).  Every poll after a
\* Ready(None) returns Ready(None).
EndsWhenAllGone ==
    [][/\ (WxPoll /\ AllGone) =>
             /\ WxPollResult = (IF CreditPending THEN "Ready" ELSE "ReadyNone")
             /\ ~CreditPending'
             /\ WxPollResult = "ReadyNone" => winNone'
       /\ AllGone => AllGone'
       /\ (AllGone /\ ~CreditPending) => ~CreditPending'
       /\ winNone => winNone'
       /\ (WxPoll /\ winNone) => WxPollResult = "ReadyNone"]_vars

\* C19 witness: sender, receiver and the chunk that was read are gone, and
\* the advertiser has reached the end of its stream
EndsWhenAllGoneWitness ==
    /\ AllGone /\ wx = "live" /\ winNone
    /\ nPushed = MaxBytes /\ rcvd = AllPushed /\ chunks = <<>>


\* C20: the advertiser never ends early.  A poll returns Ready(None) only
\* if the sender and the receiver have both released the window and no
\* chunk holding a window reference is alive; while any of them is alive
\* the poll returns Ready(Some(k)) or NotReady, and the window is never
\* taken.
NeverEndsEarly ==
    [][/\ WxPoll =>
             /\ WxPollResult = "ReadyNone" => AllGone
             /\ ~AllGone => /\ WxPollResult \in {"Ready", "NotReady"}
                            /\ ~winNone'
       /\ winNone' => AllGone']_vars

\* C20 witness: the sender and the receiver are gone, a chunk that was read
\* is still alive, and the advertiser's last poll was NotReady
NeverEndsEarlyWitness ==
    /\ tx = "gone" /\ rx = "gone" /\ wx = "live"
    /\ WindowWeak > 0 /\ rcvd # <<>>
    /\ ~winNone /\ window.blocked


(* --------------------------- granted credit --------------------------- *)
\* the increment a step yields to the advertiser's reader, 0 if none
YieldedBy ==
    IF WxPoll /\ WxPollResult = "Ready" THEN ApplyIncrementResult(window) ELSE 0

\* C21: granted credit is never rescinded.  advertised rises only on an
\* advertiser poll that yields k, by exactly k, and falls only on an
\* accepted push_bytes, by the pushed length; every other operation leaves
\* it unchanged.  advertised + (bytes accepted so far) starts at 0 and grows
\* by exactly the increment yielded, so advertised always equals the sum of
\* the increments yielded less the sum of the bytes pushed.
GrantedCreditKept ==
    /\ window.advertised = 0 /\ nPushed = 0
    /\ [][/\ WxPoll => window'.advertised = window.advertised + YieldedBy
          /\ \A n \in 1..MaxPush :
                TxPush(n) =>
                   /\ window'.advertised
                         = window.advertised - (IF PushResult(n) = "Ok" THEN n ELSE 0)
                   /\ nPushed' = nPushed + (IF PushResult(n) = "Ok" THEN n ELSE 0)
          /\ ~(WxPoll \/ \E n \in 1..MaxPush : TxPush(n))
                => /\ window'.advertised = window.advertised
                   /\ nPushed' = nPushed
          /\ window'.advertised + nPushed'
                = window.advertised + nPushed + YieldedBy]_vars

\* C21 witness: credit was yielded, part of it was claimed by a push, and
\* the window was shrunk while the rest was still advertised
GrantedCreditKeptWitness ==
    /\ shrunk = MaxShrink /\ window.underflow = MaxShrink
    /\ window.advertised = 1 /\ nPushed = 1 /\ initial = 2


(* ------------------------- shrink is repaid first --------------------- *)
\* largest amount passed to shrink_window at the start of a run of SpecShrunk
MaxDebt == 3

\* the ways the bytes 1..r read so far can be held by live chunks
HeldChunks ==
    { <<FromVec(<<<<1>>>>)>>,
      <<FromVec(<<<<1, 2>>>>)>>,
      <<FromVec(<<<<1>>, <<2>>>>)>>,
      <<FromVec(<<<<1>>>>), FromVec(<<<<2>>>>)>> }

\* a channel whose whole initial window was yielded by the advertiser and
\* partly spent on bytes that are now held by chunks (pending == 0 and
\* underflow == 0), right after shrink_window(s)
InitShrunk ==
    /\ chunks \in HeldChunks
    /\ nPushed = ChunksRemaining(chunks)
    /\ rcvd = AllPushed
    /\ initial \in nPushed..(nPushed + 1)
    /\ shrunk \in 1..MaxDebt
    /\ window = Shrink([WindowNew(0) EXCEPT !.advertised = initial - nPushed],
                       shrunk)
    /\ winNone = FALSE
    /\ buffer = BufferDefault
    /\ poisoned = FALSE
    /\ tx = "live"
    /\ rx = "live"
    /\ wx = "live"
    /\ rxNotified = FALSE
    /\ wxNotified = FALSE
    /\ everReset = FALSE

\* after the shrink: increments from the chunks, advertiser polls, claims
NextShrunk ==
    \/ WxPoll
    \/ \E n \in 1..MaxPush : TxPush(n)
    \/ \E i \in 1..MaxChunks, sz \in 0..MaxSz : ChunkAdvance(i, sz)

SpecShrunk == InitShrunk /\ [][NextShrunk]_vars

\* n1 + .. + nk: the amounts passed to advertise_increment since the shrink
RECURSIVE IncrementSum(_)
IncrementSum(cs) ==
    IF cs = <<>> THEN 0 ELSE Head(cs).credited + IncrementSum(Tail(cs))

\* the increments yielded by the advertiser since the shrink (all of
\* `initial` was yielded before it)
YieldedSince == window.advertised + nPushed - initial

\* the increments are still repaying the shrink, or have repaid it
Repaying ==
    IF IncrementSum(chunks) <= shrunk
    THEN /\ YieldedSince = 0 /\ window.pending_increment = 0
         /\ window.underflow = shrunk - IncrementSum(chunks)
    ELSE /\ YieldedSince + window.pending_increment = IncrementSum(chunks) - shrunk
         /\ window.underflow = 0

\* C22: shrink is repaid before new credit is advertised.  From a window
\* with pending == 0 and underflow == 0, after shrink(s) and increments
\* n1..nk interleaved with advertiser polls and claims, the polls yield
\* nothing while n1+..+nk <= s and in total exactly n1+..+nk - s once the
\* sum exceeds s (a poll yields all that is pending); an increment
\* n <= underflow only lowers underflow by n, leaves pending unchanged and
\* fires no waker.
ShrinkRepaidFirst ==
    /\ Repaying
    /\ [][/\ Repaying'
          /\ (WxPoll /\ IncrementSum(chunks) > shrunk)
                => YieldedSince' = IncrementSum(chunks) - shrunk
          /\ (WxPoll /\ IncrementSum(chunks) <= shrunk)
                => WxPollResult = "NotReady"
          /\ \A i \in 1..MaxChunks, sz \in 0..MaxSz :
                (/\ ChunkAdvance(i, sz)
                 /\ AdvanceCredit(chunks[i], sz) > 0
                 /\ AdvanceCredit(chunks[i], sz) <= window.underflow)
                => /\ window' = [window EXCEPT
                                    !.underflow = @ - AdvanceCredit(chunks[i], sz)]
                   /\ wxNotified' = wxNotified]_vars

\* C22 witness: two increments of one byte each followed shrink(1); the
\* first repaid the debt, the second was yielded by the advertiser
ShrinkRepaidFirstWitness ==
    /\ shrunk = 1 /\ IncrementSum(chunks) = 2
    /\ Len(chunks) = 2 /\ chunks[1].credited = 1 /\ chunks[2].credited = 1
    /\ YieldedSince = 1 /\ window.pending_increment = 0
    /\ window.underflow = 0


(* ------------------------------ one chunk ----------------------------- *)
\* most bytes held by the chunk a run of SpecChunk starts with
MaxHeld == 4
\* the argument of advance ranges over 0..MaxAdvance in SpecChunk
MaxAdvance == 3

\* the ways push_bytes can have queued the bytes s as non-empty slices
RECURSIVE Splits(_)
Splits(s) ==
    IF s = <<>> THEN {<<>>}
    ELSE UNION { { <<SubSeq(s, 1, k)>> \o t : t \in Splits(SubSeq(s, k + 1, Len(s))) }
                 : k \in 1..Len(s) }

\* a channel whose whole window was yielded and claimed by pushes, right
\* after one poll_chunk has returned everything queued in a single chunk
\* (the empty chunk of poll_chunk(0) when nothing was pushed)
InitChunk ==
    /\ nPushed \in 0..MaxHeld
    /\ rcvd = AllPushed
    /\ chunks \in { <<FromVec(q)>> : q \in Splits(rcvd) }
    /\ initial = nPushed
    /\ shrunk = 0
    /\ window = WindowNew(0)
    /\ winNone = FALSE
    /\ buffer = BufferDefault
    /\ poisoned = FALSE
    /\ tx = "live"
    /\ rx = "live"
    /\ wx = "live"
    /\ rxNotified = FALSE
    /\ wxNotified = FALSE
    /\ everReset = FALSE

\* the reader advances through the chunk and drops it; the advertiser polls
NextChunk ==
    \/ \E sz \in 0..MaxAdvance : ChunkAdvance(1, sz)
    \/ ChunkDrop(1)
    \/ WxPoll

SpecChunk == InitChunk /\ [][NextChunk]_vars

\* C23: Chunk::advance fails exactly on over-advance.  On every chunk
\* reached by earlier advances, advance(n) with n <= remaining() completes
\* without panic, advance(n) with n > remaining() panics and returns no
\* credit to the window, and advance(0) changes neither the chunk nor the
\* window, the empty chunk included.
AdvanceFailsOnlyPastEnd ==
    [][\A sz \in 0..MaxAdvance :
          ChunkAdvance(1, sz)
          => /\ AdvancePanics(chunks[1], sz) <=> sz > Remaining(chunks[1])
             /\ AdvancePanics(chunks[1], sz) => window' = window
             /\ sz = 0 => (chunks' = chunks /\ window' = window)]_vars


(* ---------------------------- poll_chunk(0) --------------------------- *)
\* C24: poll_chunk(0) returns Ready(Some(empty chunk)) at once in every
\* buffer state, parks no waker and changes neither the buffer nor the
\* window; the empty chunk has remaining() == 0 and returns no credit when
\* it is advanced by 0 or dropped.
PollZeroIsEmpty ==
    [][/\ RxPoll(0) =>
             /\ PollChunkResult(0) = "ReadySome"
             /\ buffer' = buffer /\ poisoned' = poisoned
             /\ window' = window /\ wxNotified' = wxNotified
             /\ chunks' = Append(chunks, ChunkEmpty)
             /\ Remaining(ChunkEmpty) = 0 /\ ChunkBytes(ChunkEmpty) = <<>>
       /\ \A i \in 1..MaxChunks :
             (i <= Len(chunks) /\ chunks[i].kind = "Zero") =>
                /\ ChunkAdvance(i, 0)
                      => (chunks' = chunks /\ window' = window
                          /\ wxNotified' = wxNotified)
                /\ ChunkDrop(i)
                      => (window' = window /\ wxNotified' = wxNotified)]_vars

\* C24 witness: an empty chunk returned by poll_chunk(0) is alive next to a
\* chunk with bytes, and the sender has failed the channel
PollZeroIsEmptyWitness ==
    /\ rx = "live" /\ buffer.state = "SenderFailed"
    /\ Len(chunks) = 2 /\ chunks[1].kind = "Zero" /\ chunks[2].kind = "One"


(* ------------------------ apply_increment's assertion ----------------- *)
\* C25: the assertion in Window::apply_increment always holds.  Whenever
\* poll_increment finds pending > 0 with underflow >= pending, and so
\* absorbs the pending credit into underflow, advertised == 0.
AbsorbingPollFindsNothingAdvertised ==
    [][(/\ WxPoll
        /\ ~winNone
        /\ window.pending_increment > 0
        /\ window.underflow >= window.pending_increment)
       => window.advertised = 0]_vars


(* ------------------------------ wake-ups ------------------------------ *)
\* the receiver's task is parked in awaiting_chunk
RxParked == buffer.state = "Sending" /\ buffer.awaiting_chunk

\* C26: a receiver parked by poll_chunk is woken by reset.  If
\* awaiting_chunk holds a parked task when the sender calls reset(e), the
\* task is taken and notified (so that a receiver which re-polls only when
\* notified comes to observe Err(e)).
ResetWakesReceiver ==
    [][(TxReset /\ ~poisoned /\ RxParked /\ rx = "live")
       => (rxNotified' /\ ~buffer'.awaiting_chunk)]_vars


\* the receiver's task polls again because it was notified
RxWoken == \E max_sz \in 1..MaxSz : rxNotified /\ RxPoll(max_sz)

\* fair scheduling of the receiver's task: a notified task is polled
SpecFair == Spec /\ WF_vars(RxWoken)

\* the receiver holds k bytes so far and a wake-up of its task is pending
NotifiedAt(k) ==
    /\ rxNotified /\ rx = "live" /\ Len(rcvd) = k
    /\ ~poisoned /\ ~everReset

\* the receiver has got more than k bytes or the end of the stream, or the
\* run has left the claim's case (receiver dropped, reset, a panic)
ServedAfter(k) ==
    \/ Len(rcvd) > k
    \/ rx = "live" /\ buffer.state = "None"
    \/ rx # "live" \/ everReset \/ poisoned \/ ~Running

\* C27: no lost wake-up for the receiver on push, close or sender drop.
\* poll_chunk(max_sz > 0) on Sending with len == 0 parks the task in
\* awaiting_chunk and returns NotReady; a later accepted push, close or
\* sender drop notifies the parked task; and under fair scheduling a
\* receiver that polls again when notified receives the pushed bytes or
\* Ready(None).
NoLostWakeup ==
    /\ [][/\ \A max_sz \in 1..MaxSz :
                (/\ RxPoll(max_sz) /\ ~poisoned
                 /\ buffer.state = "Sending" /\ buffer.len = 0)
                => (PollChunkResult(max_sz) = "NotReady" /\ RxParked')
          /\ \A n \in 1..MaxPush :
                (TxPush(n) /\ PushResult(n) = "Ok" /\ RxParked)
                => (rxNotified' /\ buffer'.len > 0)
          /\ ((TxClose \/ TxDrop) /\ ~poisoned /\ RxParked /\ rx = "live")
                => (rxNotified' /\ buffer'.state = "SenderClosed")]_vars
    /\ \A k \in 0..MaxBytes : NotifiedAt(k) ~> ServedAfter(k)

\* C27 witness: the receiver parked on the empty channel and the sender
\* closed it: the wake-up is pending and the next poll will end the stream
NoLostWakeupWitness ==
    /\ rxNotified /\ rx = "live" /\ ~poisoned
    /\ buffer.state = "SenderClosed" /\ buffer.len = 0
    /\ tx = "closed" /\ nPushed = 0


\* the advertiser's task is parked in the window by a NotReady poll and has
\* not been notified since
WxParked == wx = "live" /\ ~winNone /\ window.blocked

\* C28: a parked advertiser learns of termination.  If the advertiser's last
\* poll returned NotReady and afterwards the sender, the receiver and all
\* chunks are dropped, the parked task is notified by the time the last of
\* them is gone (so that an advertiser which polls again only when notified
\* comes to observe Ready(None)).
OrphaningWakesAdvertiser ==
    [][(WxParked /\ ~AllGone /\ AllGone') => wxNotified']_vars


(* ---------------------------- chunk content --------------------------- *)
\* the bytes a chunk holds, and the bytes B it was created with less the
\* first m
Held(c) == Concat(c.buffers)
Beyond(m) == SubSeq(rcvd, m + 1, Len(rcvd))

\* C29: chunk cursor content.  After legal advance calls totalling m bytes
\* on a chunk created with the byte sequence B, the chunk holds exactly B
\* without its first m bytes, and bytes() returns the leading contiguous
\* segment of that remainder: a legal advance(n) on a chunk holding B less
\* m bytes leaves B less m + n bytes.
CursorContent ==
    /\ Held(chunks[1]) = rcvd
    /\ [][\A sz \in 0..MaxAdvance :
             (/\ ChunkAdvance(1, sz)
              /\ sz <= Remaining(chunks[1])
              /\ Held(chunks[1]) = Beyond(chunks[1].credited))
             => /\ chunks'[1].credited = chunks[1].credited + sz
                /\ Held(chunks'[1]) = Beyond(chunks'[1].credited)
                /\ IsPrefix(ChunkBytes(chunks'[1]), Held(chunks'[1]))
                /\ (Held(chunks'[1]) # <<>> => ChunkBytes(chunks'[1]) # <<>>)]_vars


(* ------------------------------ the queue ----------------------------- *)
\* pushes of any length, the empty Bytes included, polls with any max_sz,
\* close; the advertiser polls and the chunks are dropped so that credit
\* goes round
NextQueue ==
    \/ WxPoll
    \/ \E n \in 0..MaxPush : TxPush(n)
    \/ TxClose
    \/ \E max_sz \in 0..MaxSz : RxPoll(max_sz)
    \/ \E i \in 1..MaxChunks : ChunkDrop(i)

SpecQueue == Init /\ [][NextQueue]_vars

\* C30: in every reachable buffer state Sending or SenderClosed, len equals
\* the sum of the lengths of the queued slices, after any sequence of
\* push_bytes (zero-length pushes included), poll_chunk with any max_sz
\* (splits of the head slice included) and close.
LenIsQueued ==
    buffer.state \in {"Sending", "SenderClosed"}
        => buffer.len = SumLen(buffer.buffers)

\* C30 witness: a two-byte slice and an empty one were pushed, and a poll
\* has split the first
LenIsQueuedWitness ==
    /\ buffer.state \in {"Sending", "SenderClosed"}
    /\ buffer.buffers = << <<2>>, <<>> >> /\ buffer.len = 1
    /\ rcvd = <<1>>


(* --------------------------- awaiting_chunk --------------------------- *)
\* a task is parked only in Sending with nothing queued
ParkedOnlyWhenEmpty ==
    buffer.awaiting_chunk => (buffer.state = "Sending" /\ buffer.len = 0)

\* C31: in every reachable state awaiting_chunk holds a parked task only if
\* the buffer is in state Sending and len == 0; a push that makes len
\* positive clears it, and close, reset and receiver drop (the buffer lock
\* healthy) leave no parked task behind in the state they produce.
ParkedTaskOnlyInEmptySending ==
    /\ ParkedOnlyWhenEmpty
    /\ [][/\ ParkedOnlyWhenEmpty'
          /\ \A n \in 1..MaxPush :
                (TxPush(n) /\ PushResult(n) = "Ok")
                => (buffer'.len > 0 /\ ~buffer'.awaiting_chunk)
          /\ ((TxClose \/ TxReset \/ TxDrop \/ RxDrop) /\ ~poisoned)
                => ~buffer'.awaiting_chunk]_vars

\* C31 witness: the receiver parked on the empty queue, and a push has
\* taken the task and queued a byte
ParkedTaskOnlyInEmptySendingWitness ==
    /\ rx = "live" /\ tx = "live" /\ rxNotified
    /\ buffer.state = "Sending" /\ buffer.len = 1 /\ ~buffer.awaiting_chunk
    /\ nPushed = 1 /\ rcvd = <<>>


(* ------------------------- the window's waker ------------------------- *)
\* a task is parked in the window only while nothing is pending
ParkedOnlyWhenNothingPending ==
    window.blocked => window.pending_increment = 0

\* C32: in every reachable window state a parked waker implies
\* pending == 0, and every advertise_increment that raises pending from 0
\* to a positive value takes and notifies the parked waker, so the
\* advertiser is never left parked while pending > 0.
PendingWakesAdvertiser ==
    /\ ParkedOnlyWhenNothingPending
    /\ [][/\ ParkedOnlyWhenNothingPending'
          /\ (window.pending_increment = 0 /\ window'.pending_increment > 0)
                => /\ ~window'.blocked
                   /\ window.blocked => wxNotified']_vars

\* C32 witness: the advertiser parked on an empty window, and credit
\* returned since has taken its task and notified it
PendingWakesAdvertiserWitness ==
    /\ wx = "live" /\ ~winNone /\ wxNotified
    /\ ~window.blocked /\ window.pending_increment > 0
    /\ window.advertised = 0 /\ nPushed > 0


(* ----------------------------- lock order ----------------------------- *)
(* SpecLocks follows the calls on the handles lock by lock.  In it tx, rx  *)
(* and wx hold the position of the call in progress on the handle, and     *)
(* chunks[1] the position of the call in progress on a live chunk: the     *)
(* operation and the number of locks it has acquired so far.  The contents *)
(* of the buffer and of the window stay as constructed: which branch a     *)
(* call takes is left open, so a call may return after its first lock.     *)

\* the locks ByteSender's operations acquire, in order: push_bytes, reset
\* and do_close lock the buffer and, holding it, the window
TxLockOrder(op) ==
    CASE op \in {"push_bytes", "reset", "close", "do_close"} -> <<"buffer", "window">>
      [] op \in {"len", "is_empty"} -> <<"buffer">>
      [] op = "available_window" -> <<"window">>

\* faulty variant of the receiver's lock order: shrink_window looks at the
\* buffer while it holds the window lock
RxLockOrderReversed(op) ==
    CASE op = "drop" -> <<"buffer", "window">>
      [] op = "poll_chunk" -> <<"buffer">>
      [] op = "shrink_window" -> <<"window", "buffer">>

\* the locks ByteReceiver's operations acquire, in order: Drop locks the
\* buffer and calls return_buffer_to_window under it
RxLockOrder(op) ==
    CASE op = "drop" -> <<"buffer", "window">>
      [] op = "poll_chunk" -> <<"buffer">>
      [] op = "shrink_window" -> <<"window">>

\* the lock WindowAdvertiser::poll acquires
WxLockOrder(op) == <<"window">>

\* the lock Buf::advance and Drop for Chunk acquire, in add_capacity
ChunkLockOrder(op) == <<"window">>

\* a handle on which no call is in progress, and one that has been consumed
Idle == [op |-> "idle", held |-> 0]
Gone == [op |-> "gone", held |-> 0]
Calling(p) == p.op \notin {"idle", "gone"}

\* the locks held by the call at position p whose lock order is order
HeldLocks(p, order) == { order[j] : j \in 1..p.held }

\* all locks held
LocksHeld ==
    (IF Calling(tx) THEN HeldLocks(tx, TxLockOrder(tx.op)) ELSE {})
    \cup (IF Calling(rx) THEN HeldLocks(rx, RxLockOrder(rx.op)) ELSE {})
    \cup (IF Calling(wx) THEN HeldLocks(wx, WxLockOrder(wx.op)) ELSE {})
    \cup (IF Calling(chunks[1])
          THEN HeldLocks(chunks[1], ChunkLockOrder(chunks[1].op)) ELSE {})

\* Mutex::lock returns: the next lock of the call is free
CanLock(p, order) ==
    Calling(p) /\ p.held < Len(order) /\ order[p.held + 1] \notin LocksHeld

\* the call returns and its guards are dropped; it has locked at least its
\* first lock, and all of them unless a branch returned early
CanReturn(p, order) == Calling(p) /\ p.held >= 1

\* the channel as constructed, no call in progress, one chunk alive
InitLocks ==
    /\ initial \in 0..MaxWindow
    /\ window = WindowNew(initial)
    /\ winNone = FALSE
    /\ buffer = BufferDefault
    /\ poisoned = FALSE
    /\ tx = Idle
    /\ rx = Idle
    /\ wx = Idle
    /\ chunks = <<Idle>>
    /\ rxNotified = FALSE
    /\ wxNotified = FALSE
    /\ shrunk = 0
    /\ nPushed = 0
    /\ rcvd = <<>>
    /\ everReset = FALSE

\* what SpecLocks leaves alone
LockFrame ==
    UNCHANGED <<window, winNone, buffer, poisoned, rxNotified, wxNotified,
                initial, shrunk, nPushed, rcvd, everReset>>

\* a call on the sender starts
TxCall(op) ==
    /\ tx = Idle
    /\ tx' = [op |-> op, held |-> 0]
    /\ LockFrame /\ UNCHANGED <<rx, wx, chunks>>

TxLock ==
    /\ CanLock(tx, TxLockOrder(tx.op))
    /\ tx' = [tx EXCEPT !.held = @ + 1]
    /\ LockFrame /\ UNCHANGED <<rx, wx, chunks>>

\* reset(self) and close(self) end with the Drop of self, which runs
\* do_close; Drop ends the sender
TxReturn ==
    /\ CanReturn(tx, TxLockOrder(tx.op))
    /\ tx' = IF tx.op \in {"reset", "close"} THEN [op |-> "do_close", held |-> 0]
             ELSE IF tx.op = "do_close" THEN Gone
             ELSE Idle
    /\ LockFrame /\ UNCHANGED <<rx, wx, chunks>>

\* a call on the receiver starts
RxCall(op) ==
    /\ rx = Idle
    /\ rx' = [op |-> op, held |-> 0]
    /\ LockFrame /\ UNCHANGED <<tx, wx, chunks>>

RxLock ==
    /\ CanLock(rx, RxLockOrder(rx.op))
    /\ rx' = [rx EXCEPT !.held = @ + 1]
    /\ LockFrame /\ UNCHANGED <<tx, wx, chunks>>

RxReturn ==
    /\ CanReturn(rx, RxLockOrder(rx.op))
    /\ rx' = IF rx.op = "drop" THEN Gone ELSE Idle
    /\ LockFrame /\ UNCHANGED <<tx, wx, chunks>>

\* the advertiser is polled
WxCall ==
    /\ wx = Idle
    /\ wx' = [op |-> "poll", held |-> 0]
    /\ LockFrame /\ UNCHANGED <<tx, rx, chunks>>

WxLock ==
    /\ CanLock(wx, WxLockOrder(wx.op))
    /\ wx' = [wx EXCEPT !.held = @ + 1]
    /\ LockFrame /\ UNCHANGED <<tx, rx, chunks>>

WxReturn ==
    /\ CanReturn(wx, WxLockOrder(wx.op))
    /\ wx' = Idle
    /\ LockFrame /\ UNCHANGED <<tx, rx, chunks>>

\* advance or Drop of the chunk starts
ChunkCall(op) ==
    /\ chunks[1] = Idle
    /\ chunks' = <<[op |-> op, held |-> 0]>>
    /\ LockFrame /\ UNCHANGED <<tx, rx, wx>>

ChunkLock ==
    /\ CanLock(chunks[1], ChunkLockOrder(chunks[1].op))
    /\ chunks' = <<[chunks[1] EXCEPT !.held = @ + 1]>>
    /\ LockFrame /\ UNCHANGED <<tx, rx, wx>>

ChunkReturn ==
    /\ CanReturn(chunks[1], ChunkLockOrder(chunks[1].op))
    /\ chunks' = <<IF chunks[1].op = "drop" THEN Gone ELSE Idle>>
    /\ LockFrame /\ UNCHANGED <<tx, rx, wx>>

NextLocks ==
    \/ \E op \in {"push_bytes", "reset", "close", "do_close",
                  "len", "is_empty", "available_window"} : TxCall(op)
    \/ TxLock
    \/ TxReturn
    \/ \E op \in {"poll_chunk", "shrink_window", "drop"} : RxCall(op)
    \/ RxLock
    \/ RxReturn
    \/ WxCall
    \/ WxLock
    \/ WxReturn
    \/ \E op \in {"advance", "drop"} : ChunkCall(op)
    \/ ChunkLock
    \/ ChunkReturn

\* every thread that is inside a call runs on, and a thread that waits for
\* a lock which is released again and again gets it in the end
SpecLocks ==
    /\ InitLocks /\ [][NextLocks]_vars
    /\ SF_vars(TxLock) /\ WF_vars(TxReturn)
    /\ SF_vars(RxLock) /\ WF_vars(RxReturn)
    /\ SF_vars(WxLock) /\ WF_vars(WxReturn)
    /\ SF_vars(ChunkLock) /\ WF_vars(ChunkReturn)

\* some call in progress can take its next step
SomeCallRuns ==
    \/ CanLock(tx, TxLockOrder(tx.op)) \/ CanReturn(tx, TxLockOrder(tx.op))
    \/ CanLock(rx, RxLockOrder(rx.op)) \/ CanReturn(rx, RxLockOrder(rx.op))
    \/ CanLock(wx, WxLockOrder(wx.op)) \/ CanReturn(wx, WxLockOrder(wx.op))
    \/ CanLock(chunks[1], ChunkLockOrder(chunks[1].op))
    \/ CanReturn(chunks[1], ChunkLockOrder(chunks[1].op))

\* the calls in progress are never all waiting for one another
NeverAllWaiting ==
    (Calling(tx) \/ Calling(rx) \/ Calling(wx) \/ Calling(chunks[1]))
    => SomeCallRuns

\* the call at position p holds the window lock and goes on to the buffer
WantsBufferUnderWindow(p, order) ==
    /\ Calling(p) /\ p.held < Len(order)
    /\ "window" \in HeldLocks(p, order) /\ order[p.held + 1] = "buffer"

\* no call acquires the buffer lock while it holds the window lock
BufferBeforeWindow ==
    /\ ~WantsBufferUnderWindow(tx, TxLockOrder(tx.op))
    /\ ~WantsBufferUnderWindow(rx, RxLockOrder(rx.op))
    /\ ~WantsBufferUnderWindow(wx, WxLockOrder(wx.op))
    /\ ~WantsBufferUnderWindow(chunks[1], ChunkLockOrder(chunks[1].op))

\* the operations that take only the window lock, and only the buffer lock
OneLockOnly ==
    /\ \A op \in {"advance", "drop"} : ChunkLockOrder(op) = <<"window">>
    /\ RxLockOrder("shrink_window") = <<"window">>
    /\ TxLockOrder("available_window") = <<"window">>
    /\ WxLockOrder("poll") = <<"window">>
    /\ RxLockOrder("poll_chunk") = <<"buffer">>

LibState(state, capacity, len, buffers, tx_blocked, rx_blocked) ==
    [state |-> state, capacity |-> capacity, len |-> len, buffers |-> buffers,
     tx_blocked |-> tx_blocked, rx_blocked |-> rx_blocked]

LibNone == LibState("None", 0, 0, <<>>, 0, FALSE)

\* new(init_capacity)
LibInit ==
    /\ initial \in 0..MaxWindow
    /\ buffer = LibState("Buffering", initial, 0, <<>>, 0, FALSE)
    /\ tx = "live"
    /\ rx = "live"
    /\ wx = "gone"
    /\ window = WindowNew(0)
    /\ winNone = FALSE
    /\ poisoned = FALSE
    /\ chunks = <<>>
    /\ rxNotified = FALSE
    /\ wxNotified = FALSE
    /\ shrunk = 0
    /\ nPushed = 0
    /\ rcvd = <<>>
    /\ everReset = FALSE

\* what the channel of lib.rs does not have
LibFrame == UNCHANGED <<window, winNone, poisoned, wx, chunks, initial, shrunk, everReset>>

\* ensure_peer: Arc::strong_count(inner) == 1
LibLostPeer == (IF tx = "live" THEN 1 ELSE 0) + (IF rx = "live" THEN 1 ELSE 0) = 1

\* Tx::close
LibClose ==
    /\ tx = "live"
    /\ buffer' = IF LibLostPeer \/ buffer.state = "None" THEN LibNone
                 ELSE LibState("Draining", 0, buffer.len, buffer.buffers, 0, FALSE)
    /\ UNCHANGED <<tx, rx, rxNotified, wxNotified, nPushed, rcvd>>
    /\ LibFrame

\* Tx::poll_capacity: the result
LibPollCapacityResult(sz) ==
    IF LibLostPeer \/ buffer.state \in {"None", "Draining"} THEN "Closed"
    ELSE IF buffer.capacity >= sz THEN "Ready"
    ELSE "NotReady"

\* Tx::poll_capacity
LibPollCapacity(sz) ==
    /\ tx = "live"
    /\ buffer' = IF LibLostPeer THEN LibNone
                 ELSE IF LibPollCapacityResult(sz) = "NotReady"
                      THEN [buffer EXCEPT !.tx_blocked = sz]
                      ELSE buffer
    /\ wxNotified' = FALSE
    /\ UNCHANGED <<tx, rx, rxNotified, nPushed, rcvd>>
    /\ LibFrame

\* Tx::try_push: the result
LibTryPushResult(n) ==
    IF LibLostPeer \/ buffer.state \in {"None", "Draining"} THEN "Closed"
    ELSE IF buffer.capacity >= n THEN "Ready"
    ELSE "NotReady"

\* Tx::try_push of n fresh bytes
LibTryPush(n) ==
    /\ tx = "live"
    /\ nPushed + n <= MaxBytes
    /\ CASE LibTryPushResult(n) = "Closed" ->
              /\ buffer' = IF LibLostPeer THEN LibNone ELSE buffer
              /\ UNCHANGED <<rxNotified, nPushed>>
         [] LibTryPushResult(n) = "Ready" ->
              /\ buffer' = [buffer EXCEPT !.buffers = Append(@, NewBytes(n)),
                                          !.capacity = @ - n,
                                          !.len = @ + n,
                                          !.rx_blocked = FALSE]
              /\ rxNotified' = (rxNotified \/ buffer.rx_blocked)
              /\ nPushed' = nPushed + n
         [] LibTryPushResult(n) = "NotReady" ->
              /\ buffer' = [buffer EXCEPT !.tx_blocked = n]
              /\ UNCHANGED <<rxNotified, nPushed>>
    /\ wxNotified' = FALSE
    /\ UNCHANGED <<tx, rx, rcvd>>
    /\ LibFrame

\* Rx::take_chunk: the slices of the chunk
RECURSIVE TakeChunk(_, _)
TakeChunk(buffers, sz) ==
    IF sz = 0 \/ buffers = <<>> THEN <<>>
    ELSE IF sz < Len(Head(buffers))
         THEN <<SplitOffSelf(Head(buffers), sz)>>
         ELSE <<Head(buffers)>> \o TakeChunk(Tail(buffers), sz - Len(Head(buffers)))

\* Rx::take_chunk: the queue left behind
RECURSIVE TakeChunkRest(_, _)
TakeChunkRest(buffers, sz) ==
    IF sz = 0 \/ buffers = <<>> THEN buffers
    ELSE IF sz < Len(Head(buffers))
         THEN <<SplitOffSuffix(Head(buffers), sz)>> \o Tail(buffers)
         ELSE TakeChunkRest(Tail(buffers), sz - Len(Head(buffers)))

\* Rx::poll_chunk: the result, for sz > 0
LibPollChunkResult(sz) ==
    IF buffer.state = "None" THEN "ReadyNone"
    ELSE IF buffer.len = 0
         THEN IF buffer.state = "Buffering" /\ ~LibLostPeer THEN "NotReady"
              ELSE "ReadyNone"
         ELSE "ReadySome"

\* Rx::poll_chunk: the state afterwards.  Every branch begins with
\* (*state).take(); the Buffering branches store a state again, the
\* Draining branch does not
LibPollChunkState(sz) ==
    LET n == Min(buffer.len, sz)
        capacity == buffer.capacity + n
    IN  IF buffer.state = "Buffering"
        THEN IF buffer.len = 0
             THEN IF LibLostPeer THEN LibNone
                  ELSE [buffer EXCEPT !.rx_blocked = TRUE]
             ELSE [buffer EXCEPT !.capacity = capacity,
                                 !.len = @ - n,
                                 !.buffers = TakeChunkRest(@, n),
                                 !.rx_blocked = FALSE,
                                 !.tx_blocked = IF @ # 0 /\ @ <= capacity THEN 0 ELSE @]
        ELSE LibNone

\* Rx::poll_chunk: tx_blocked is notified
LibPollChunkNotifies(sz) ==
    /\ buffer.state = "Buffering" /\ buffer.len > 0
    /\ buffer.tx_blocked # 0
    /\ buffer.tx_blocked <= buffer.capacity + Min(buffer.len, sz)

\* Rx::poll_chunk
LibPollChunk(sz) ==
    /\ rx = "live"
    /\ buffer' = LibPollChunkState(sz)
    /\ rcvd' = IF LibPollChunkResult(sz) = "ReadySome"
               THEN rcvd \o Concat(TakeChunk(buffer.buffers, Min(buffer.len, sz)))
               ELSE rcvd
    /\ rxNotified' = FALSE
    /\ wxNotified' = (wxNotified \/ LibPollChunkNotifies(sz))
    /\ UNCHANGED <<tx, rx, nPushed>>
    /\ LibFrame

\* Tx is dropped: it has no Drop, its Arc is released
LibTxDrop ==
    /\ tx = "live"
    /\ tx' = "gone"
    /\ UNCHANGED <<buffer, rx, rxNotified, wxNotified, nPushed, rcvd>>
    /\ LibFrame

\* Rx is dropped
LibRxDrop ==
    /\ rx = "live"
    /\ rx' = "gone"
    /\ UNCHANGED <<buffer, tx, rxNotified, wxNotified, nPushed, rcvd>>
    /\ LibFrame

LibNext ==
    \/ LibClose
    \/ \E sz \in 0..MaxSz : LibPollCapacity(sz)
    \/ \E n \in 1..MaxPush : LibTryPush(n)
    \/ \E sz \in 1..MaxSz : LibPollChunk(sz)
    \/ LibTxDrop
    \/ LibRxDrop

SpecLib == LibInit /\ [][LibNext]_vars

\* C34: in the capacity-based revision, after Tx::close() with len bytes
\* queued and the receiver alive, successive poll_chunk(sz > 0) calls
\* deliver all queued bytes, for any sz, before returning Ready(None): a
\* read in the Draining state keeps every byte it does not return queued,
\* and while Tx is alive Ready(None) comes only after every pushed byte.
DrainingDeliversAll ==
    [][\A sz \in 1..MaxSz :
          LibPollChunk(sz)
          => /\ buffer.state = "Draining"
                => rcvd' \o Concat(buffer'.buffers) = rcvd \o Concat(buffer.buffers)
             /\ (tx = "live" /\ LibPollChunkResult(sz) = "ReadyNone")
                => rcvd = AllPushed]_vars


\* a Many chunk's remaining is the sum of the lengths of its segments
RemainingIsHeld(c) == c.kind = "Many" => c.remaining = SumLen(c.buffers)

\* C35: a multi-slice (Many) chunk keeps remaining equal to the sum of the
\* lengths of its held segments: as from_vec builds it, and after every
\* legal advance that completes, those that stop inside a segment included.
ManyRemainingIsSum ==
    /\ \A i \in 1..Len(chunks) : RemainingIsHeld(chunks[i])
    /\ [][\A sz \in 0..MaxAdvance :
             (/\ ChunkAdvance(1, sz)
              /\ RemainingIsHeld(chunks[1])
              /\ sz <= Remaining(chunks[1])
              /\ ~AdvancePanics(chunks[1], sz))
             => RemainingIsHeld(chunks'[1])]_vars


\* while both ends are alive the buffer is in state Sending
SendingWhileBothLive ==
    /\ rx = "live" => buffer.state # "LostReceiver"
    /\ (tx = "live" /\ rx = "live") => buffer.state = "Sending"

\* C36: the state-mismatch failure points are unreachable.  No poll_chunk
\* finds the buffer in state LostReceiver (the unreachable!() branch), and
\* push_bytes on a live sender whose receiver has not been dropped finds
\* the buffer in state Sending: it never panics with "illegal buffer
\* state".
StateMismatchUnreachable ==
    /\ []SendingWhileBothLive
    /\ [][/\ \A max_sz \in 1..MaxSz :
                RxPoll(max_sz) => PollChunkResult(max_sz) # "panic_state"
          /\ \A n \in 1..MaxPush :
                (TxPush(n) /\ rx = "live") => PushResult(n) # "panic_state"]_vars

\* C36 witness: both ends alive after a push, a partial read, a second push
\* and the end of the advertiser
StateMismatchUnreachableWitness ==
    /\ tx = "live" /\ rx = "live" /\ wx = "gone"
    /\ nPushed = MaxBytes /\ rcvd = <<1>> /\ buffer.len = 1
    /\ buffer.state = "Sending"


\* C37: flow-control bound.  On a channel on which shrink_window is never
\* called, the bytes queued in the buffer plus the bytes remaining in live
\* chunks never exceed initial_window_size, and advertised + pending never
\* exceeds initial_window_size, whatever the pushes, reads, chunk advances
\* and chunk drops.
FlowControlBound ==
    shrunk = 0
    => /\ BufferLen(buffer) + ChunksRemaining(chunks) <= initial
       /\ window.advertised + window.pending_increment <= initial


=============================================================================
